---- MODULE Spec2Model ----
(***************************************************************************)
(* Model of the Formula expression engine (class Formula, the step         *)
(* combinator and the purchase utilities calculateMaxAffordable and        *)
(* calculateCost).                                                         *)
(*                                                                         *)
(* Numbers are exact rationals <<numerator, denominator>> in lowest terms. *)
(* The JavaScript value undefined is the empty tuple None.  A callback is  *)
(* a record [fn, env]: fn names the function, env holds the environment of *)
(* a closure (evalStep / invertStep), and Undefined is the absent          *)
(* callback.  A formula input (FormulaSource) is a tagged record: a nested *)
(* formula, a plain number or a reference to a mutable cell.               *)
(***************************************************************************)
EXTENDS Integers, Sequences, FiniteSets, TLC

VARIABLES f, cells, call, res

vars == <<f, cells, call, res>>

\* ------------------------------------------------------------------ bounds
\* Cell values, overrides and purchase amounts range over 0..MaxVal.
MaxVal == 3
\* Number of operation nodes wrapped around a leaf.
MaxDepth == 2

\* The longest list of inputs a constructor call is given is MaxInputs.
MaxInputs == 2

\* The number of outer evaluateIntegral calls made in a row on one tree.
MaxCalls == 2

\* ------------------------------------------------- numeric substrate (Decimal)
None == << >>

AbsInt(n) == IF n < 0 THEN -n ELSE n

RECURSIVE GCD(_, _)
GCD(a, b) == IF b = 0 THEN a ELSE GCD(b, a % b)

NaN == <<0, 0>>

Rat(n, d) ==
    IF d = 0 THEN NaN
    ELSE LET g == GCD(AbsInt(n), AbsInt(d))
             s == IF d < 0 THEN -1 ELSE 1
         IN  <<(s * n) \div g, (s * d) \div g>>

Num(n) == <<n, 1>>

\* Decimal.fromValue_noAlloc: anything that is not a number reads as zero.
D(v) == IF v = None THEN Num(0) ELSE v

IsNaN(a) == a[2] = 0

DecAdd(a, b) ==
    LET x == D(a)  y == D(b)
    IN  IF IsNaN(x) \/ IsNaN(y) THEN NaN
        ELSE Rat(x[1] * y[2] + y[1] * x[2], x[2] * y[2])

DecNeg(a) == LET x == D(a) IN IF IsNaN(x) THEN NaN ELSE <<-x[1], x[2]>>

DecSub(a, b) == DecAdd(a, DecNeg(b))

DecMul(a, b) ==
    LET x == D(a)  y == D(b)
    IN  IF IsNaN(x) \/ IsNaN(y) THEN NaN ELSE Rat(x[1] * y[1], x[2] * y[2])

DecDiv(a, b) ==
    LET x == D(a)  y == D(b)
    IN  IF IsNaN(x) \/ IsNaN(y) THEN NaN ELSE Rat(x[1] * y[2], x[2] * y[1])

DecAbs(a) == LET x == D(a) IN <<AbsInt(x[1]), x[2]>>

DecLt(a, b) ==
    LET x == D(a)  y == D(b)
    IN  ~IsNaN(x) /\ ~IsNaN(y) /\ x[1] * y[2] < y[1] * x[2]

DecGt(a, b) == DecLt(b, a)

DecLte(a, b) ==
    LET x == D(a)  y == D(b)
    IN  ~IsNaN(x) /\ ~IsNaN(y) /\ x[1] * y[2] <= y[1] * x[2]

DecSign(a) ==
    IF IsNaN(D(a)) THEN NaN
    ELSE IF D(a)[1] > 0 THEN Num(1) ELSE IF D(a)[1] < 0 THEN Num(-1) ELSE Num(0)

DecMax(a, b) == IF DecLt(a, b) THEN D(b) ELSE D(a)

DecMin(a, b) == IF DecGt(a, b) THEN D(b) ELSE D(a)

\* Decimal.eq: a NaN equals nothing.
DecEq(a, b) == ~IsNaN(D(a)) /\ ~IsNaN(D(b)) /\ D(a) = D(b)

DecFloor(a) == LET x == D(a) IN IF IsNaN(x) THEN NaN ELSE Num(x[1] \div x[2])

RECURSIVE IntPow(_, _)
IntPow(b, k) == IF k = 0 THEN 1 ELSE b * IntPow(b, k - 1)

\* Decimal.pow for the integer exponents the model uses.
DecPow(a, b) ==
    LET x == D(a)  y == D(b)
    IN  IF IsNaN(x) \/ IsNaN(y) \/ y[2] # 1 THEN NaN
        ELSE IF y[1] >= 0 THEN Rat(IntPow(x[1], y[1]), IntPow(x[2], y[1]))
        ELSE Rat(IntPow(x[2], -y[1]), IntPow(x[1], -y[1]))

\* Decimal.root for integer degrees: the exact root when the argument is a
\* perfect power of a rational with numerator and denominator up to RootSearch.
RootSearch == 12

DecRoot(a, b) ==
    LET x == D(a)  y == D(b)
        cands == {c \in (0..RootSearch) \X (1..RootSearch) :
                     y[2] = 1 /\ y[1] >= 1 /\ DecPow(Rat(c[1], c[2]), y) = x}
    IN  IF IsNaN(x) \/ IsNaN(y) \/ cands = {} THEN NaN
        ELSE LET c == CHOOSE c \in cands : TRUE IN Rat(c[1], c[2])

\* ------------------------------------------------------ callbacks and sources
Undefined == [fn |-> "undefined", env |-> << >>]

Fn(name) == [fn |-> name, env |-> << >>]

Closure(name, e) == [fn |-> name, env |-> <<e>>]

FormulaSrc(g) == [t |-> "formula", f |-> g]

ValueSrc(v) == [t |-> "value", v |-> v]

RefSrc(r) == [t |-> "ref", r |-> r]

IsFormula(src) == src.t = "formula"

\* unref(value) of a source that is not a formula.
unref(src, c) == IF src.t = "ref" THEN c[src.r] ELSE src.v

\* Outcome of a call: the value returned or the fault thrown, and the cells
\* as the call left them.
Ret(v, c) == [err |-> "", val |-> v, cells |-> c]

Throw(msg, c) == [err |-> msg, val |-> None, cells |-> c]

\* ------------------------------------------------------------- construction
\* FormulaOptions: keys is the set of properties the options object has.
NoOptions ==
    [keys |-> {}, variable |-> "undefined", inputs |-> << >>,
     evaluate |-> Undefined, invert |-> Undefined, integrate |-> Undefined,
     integrateInner |-> Undefined, applySubstitution |-> Undefined,
     invertIntegral |-> Undefined, hasVariable |-> FALSE]

\* InternalFormulaProperties, and the fields of a Formula instance: a property
\* that is not set is Undefined.  err is the fault thrown instead, if any.
NoProps ==
    [err |-> "", inputs |-> << >>,
     internalEvaluate |-> Undefined, internalInvert |-> Undefined,
     internalIntegrate |-> Undefined, internalIntegrateInner |-> Undefined,
     applySubstitution |-> Undefined, internalInvertIntegral |-> Undefined,
     internalHasVariable |-> FALSE, innermostVariable |-> "undefined"]

Formula_hasVariable(g) == g.internalHasVariable

hasVariable(value) == IsFormula(value) /\ Formula_hasVariable(value.f)

isInvertible(g) ==
    g.internalHasVariable
    /\ (g.internalInvert # Undefined \/ g.internalEvaluate = Undefined)

isIntegrable(g) == g.internalHasVariable /\ g.internalIntegrate # Undefined

isIntegralInvertible(g) ==
    g.internalHasVariable
    /\ (g.internalInvertIntegral # Undefined \/ g.internalEvaluate = Undefined)

setupVariable(options) ==
    [NoProps EXCEPT
        !.inputs = <<RefSrc(options.variable)>>,
        !.internalHasVariable = TRUE,
        !.innermostVariable = options.variable,
        !.internalIntegrate = Fn("integrateVariable"),
        !.internalIntegrateInner = Fn("integrateVariableInner"),
        !.applySubstitution = Fn("ops.passthrough")]

\* setupConstant that rejects only an empty list of inputs.
setupConstant_emptyOnly(options) ==
    IF Len(options.inputs) = 0
    THEN [NoProps EXCEPT
            !.err = "Evaluate function is required if inputs is not length 1"]
    ELSE [NoProps EXCEPT !.inputs = options.inputs,
                         !.internalHasVariable = FALSE]

setupConstant(options) ==
    IF Len(options.inputs) # 1
    THEN [NoProps EXCEPT
            !.err = "Evaluate function is required if inputs is not length 1"]
    ELSE [NoProps EXCEPT !.inputs = options.inputs,
                         !.internalHasVariable = FALSE]

\* setupFormula with any number of variable-bearing inputs accepted.
setupFormula_anyVariable(options) ==
    IF options.invert = Undefined /\ options.invertIntegral = Undefined
       /\ options.hasVariable
    THEN [NoProps EXCEPT !.err =
            "A formula cannot be marked as having a variable if it is not invertible"]
    ELSE
    LET inputs == options.inputs
        withVar == {i \in DOMAIN inputs : hasVariable(inputs[i])}
        numVariables == Cardinality(withVar)
        \* inputs.find(...): the first variable-bearing input, if any
        found == withVar # {}
        variable == inputs[CHOOSE i \in withVar : \A j \in withVar : i <= j].f
        internalHasVariable ==
            numVariables >= 1 \/ (numVariables = 0 /\ options.hasVariable)
    IN  [NoProps EXCEPT
            !.inputs = inputs,
            !.internalEvaluate = options.evaluate,
            !.internalIntegrate = options.integrate,
            !.internalIntegrateInner = options.integrateInner,
            !.applySubstitution = options.applySubstitution,
            !.innermostVariable =
                IF internalHasVariable /\ found
                THEN variable.innermostVariable ELSE "undefined",
            !.internalHasVariable = internalHasVariable,
            !.internalInvert =
                IF internalHasVariable /\ found /\ isInvertible(variable)
                THEN options.invert ELSE Undefined,
            !.internalInvertIntegral =
                IF internalHasVariable /\ found /\ isIntegralInvertible(variable)
                THEN options.invertIntegral ELSE Undefined]

setupFormula(options) ==
    IF options.invert = Undefined /\ options.invertIntegral = Undefined
       /\ options.hasVariable
    THEN [NoProps EXCEPT !.err =
            "A formula cannot be marked as having a variable if it is not invertible"]
    ELSE
    LET inputs == options.inputs
        withVar == {i \in DOMAIN inputs : hasVariable(inputs[i])}
        numVariables == Cardinality(withVar)
        \* inputs.find(...): the first variable-bearing input, if any
        found == withVar # {}
        variable == inputs[CHOOSE i \in withVar : \A j \in withVar : i <= j].f
        internalHasVariable ==
            numVariables = 1 \/ (numVariables = 0 /\ options.hasVariable)
    IN  [NoProps EXCEPT
            !.inputs = inputs,
            !.internalEvaluate = options.evaluate,
            !.internalIntegrate = options.integrate,
            !.internalIntegrateInner = options.integrateInner,
            !.applySubstitution = options.applySubstitution,
            !.innermostVariable =
                IF internalHasVariable /\ found
                THEN variable.innermostVariable ELSE "undefined",
            !.internalHasVariable = internalHasVariable,
            !.internalInvert =
                IF internalHasVariable /\ found /\ isInvertible(variable)
                THEN options.invert ELSE Undefined,
            !.internalInvertIntegral =
                IF internalHasVariable /\ found /\ isIntegralInvertible(variable)
                THEN options.invertIntegral ELSE Undefined]

\* The constructor: it copies six of the properties the setup function
\* returns; internalEvaluate, internalInvert and internalInvertIntegral are
\* declared fields that it never assigns.
NewFormula_assign(readonlyProperties) ==
    IF readonlyProperties.err # "" THEN readonlyProperties
    ELSE [NoProps EXCEPT
            !.inputs = readonlyProperties.inputs,
            !.internalHasVariable = readonlyProperties.internalHasVariable,
            !.innermostVariable = readonlyProperties.innermostVariable,
            !.internalIntegrate = readonlyProperties.internalIntegrate,
            !.internalIntegrateInner = readonlyProperties.internalIntegrateInner,
            !.applySubstitution = readonlyProperties.applySubstitution]

NewFormula(options) ==
    NewFormula_assign(
        IF "variable" \in options.keys THEN setupVariable(options)
        ELSE IF "evaluate" \notin options.keys THEN setupConstant(options)
        ELSE setupFormula(options))

\* ------------------------------------------------------------------ factories
constant(value) ==
    NewFormula([NoOptions EXCEPT !.keys = {"inputs"}, !.inputs = <<value>>])

variable(value) ==
    NewFormula([NoOptions EXCEPT !.keys = {"variable"}, !.variable = value])

abs(value) ==
    NewFormula([NoOptions EXCEPT
        !.keys = {"inputs", "evaluate"},
        !.inputs = <<value>>,
        !.evaluate = Fn("Decimal.abs")])

sign(value) ==
    NewFormula([NoOptions EXCEPT
        !.keys = {"inputs", "evaluate"},
        !.inputs = <<value>>,
        !.evaluate = Fn("Decimal.sign")])

floor(value) ==
    NewFormula([NoOptions EXCEPT
        !.keys = {"inputs", "evaluate"},
        !.inputs = <<value>>,
        !.evaluate = Fn("Decimal.floor")])

neg(value) ==
    NewFormula([NoOptions EXCEPT
        !.keys = {"inputs", "evaluate", "invert", "applySubstitution", "integrate"},
        !.inputs = <<value>>,
        !.evaluate = Fn("Decimal.neg"),
        !.invert = Fn("ops.invertNeg"),
        !.applySubstitution = Fn("ops.applySubstitutionNeg"),
        !.integrate = Fn("ops.integrateNeg")])

add(value, other) ==
    NewFormula([NoOptions EXCEPT
        !.keys = {"inputs", "evaluate", "invert", "integrate", "integrateInner",
                  "applySubstitution", "invertIntegral"},
        !.inputs = <<value, other>>,
        !.evaluate = Fn("Decimal.add"),
        !.invert = Fn("ops.invertAdd"),
        !.integrate = Fn("ops.integrateAdd"),
        !.integrateInner = Fn("ops.integrateInnerAdd"),
        !.applySubstitution = Fn("ops.passthrough"),
        !.invertIntegral = Fn("ops.invertIntegrateAdd")])

mul(value, other) ==
    NewFormula([NoOptions EXCEPT
        !.keys = {"inputs", "evaluate", "invert", "integrate",
                  "applySubstitution", "invertIntegral"},
        !.inputs = <<value, other>>,
        !.evaluate = Fn("Decimal.mul"),
        !.invert = Fn("ops.invertMul"),
        !.integrate = Fn("ops.integrateMul"),
        !.applySubstitution = Fn("ops.applySubstitutionMul"),
        !.invertIntegral = Fn("ops.invertIntegrateMul")])

max(value, other) ==
    NewFormula([NoOptions EXCEPT
        !.keys = {"inputs", "evaluate", "invert", "invertIntegral"},
        !.inputs = <<value, other>>,
        !.evaluate = Fn("Decimal.max"),
        !.invert = Fn("ops.passthrough"),
        !.invertIntegral = Fn("ops.passthrough")])

\* ops.createPassthroughBinaryFormula(Decimal.min): the same bundle as max,
\* with Decimal.min as the evaluate callback.
min(value, other) ==
    NewFormula([NoOptions EXCEPT
        !.keys = {"inputs", "evaluate", "invert", "invertIntegral"},
        !.inputs = <<value, other>>,
        !.evaluate = Fn("Decimal.min"),
        !.invert = Fn("ops.passthrough"),
        !.invertIntegral = Fn("ops.passthrough")])

pow(value, other) ==
    NewFormula([NoOptions EXCEPT
        !.keys = {"inputs", "evaluate", "invert", "integrate", "invertIntegral"},
        !.inputs = <<value, other>>,
        !.evaluate = Fn("Decimal.pow"),
        !.invert = Fn("ops.invertPow"),
        !.integrate = Fn("ops.integratePow"),
        !.invertIntegral = Fn("ops.invertIntegratePow")])

\* The formulaModifier arguments of step the model draws from.
Modifiers == {"mul2", "add1", "abs", "const"}

ApplyModifier(m, v) ==
    CASE m = "mul2"  -> mul(FormulaSrc(v), ValueSrc(Num(2)))
      [] m = "add1"  -> add(FormulaSrc(v), ValueSrc(Num(1)))
      [] m = "abs"   -> abs(FormulaSrc(v))
      [] m = "const" -> constant(ValueSrc(Num(5)))

\* Each step instance owns a fresh cell; the model names it after the nesting
\* depth of the instance, so that no two instances of one tree share a cell.
RECURSIVE Depth(_)
Depth(g) ==
    LET ds == {Depth(g.inputs[i].f) :
                 i \in {j \in DOMAIN g.inputs : IsFormula(g.inputs[j])}}
    IN  IF ds = {} THEN 0 ELSE 1 + CHOOSE d \in ds : \A e \in ds : e <= d

LhsRefName(value) ==
    "lhsRef" \o ToString(IF IsFormula(value) THEN Depth(value.f) ELSE 0)

\* step: lhsRef is the cell the combinator owns, formula the modifier applied
\* to a variable leaf over that cell, start the processed start value.
step(value, start, formulaModifier) ==
    LET lhsRef == LhsRefName(value)
        formula == ApplyModifier(formulaModifier, variable(lhsRef))
        env == [lhsRef |-> lhsRef, formula |-> formula, processedStart |-> start]
    IN  NewFormula([NoOptions EXCEPT
            !.keys = {"inputs", "evaluate", "invert"},
            !.inputs = <<value>>,
            !.evaluate = Closure("evalStep", env),
            !.invert = IF isInvertible(formula) /\ Formula_hasVariable(formula)
                       THEN Closure("invertStep", env) ELSE Undefined])

\* if: lhsRef is the cell the combinator owns, formula the modifier applied to
\* a variable leaf over that cell, processedCondition the cell of the
\* condition.
Formula_if(value, condition, formulaModifier) ==
    LET lhsRef == LhsRefName(value)
        formula == ApplyModifier(formulaModifier, variable(lhsRef))
        env == [lhsRef |-> lhsRef, formula |-> formula,
                processedCondition |-> condition]
    IN  NewFormula([NoOptions EXCEPT
            !.keys = {"inputs", "evaluate", "invert"},
            !.inputs = <<value>>,
            !.evaluate = Closure("if.evalStep", env),
            !.invert = IF isInvertible(formula) /\ Formula_hasVariable(formula)
                       THEN Closure("if.invertStep", env) ELSE Undefined])

conditional(value, condition, formulaModifier) ==
    Formula_if(value, condition, formulaModifier)

\* ------------------------------------------------------------------ operations
\* A call returns the value and the cells as it left them, or the fault.  The
\* result of a nested call is handed to an operator that continues the body of
\* the caller from that point (the operators named ..._then).
RECURSIVE evaluate(_, _, _), evaluate_then(_, _, _), evaluate_result(_, _, _),
          evaluate_rest(_, _, _), unrefFormulaSource(_, _, _),
          mapInputs(_, _, _, _, _), mapInputs_then(_, _, _, _, _),
          evalStep(_, _, _), if_evalStep(_, _, _), callEvaluate(_, _, _),
          if_invertStep(_, _, _, _), if_invertStep_then(_, _),
          invert(_, _, _), callInvert(_, _, _, _),
          invertStep(_, _, _, _), invertStep_then(_, _, _),
          ops_invert(_, _, _, _), ops_invert_then(_, _, _, _),
          evaluateIntegral(_, _, _, _), callIntegrate(_, _, _, _, _),
          ops_integrate(_, _, _, _, _), ops_integrate_then(_, _, _, _),
          ops_integrate_other(_, _, _, _, _),
          applyStack(_, _, _, _), applyStack_then(_, _, _),
          evaluateIntegral_apply(_, _), callSubstitution(_, _, _, _),
          ops_applySubstitutionMul(_, _, _),
          invertIntegral(_, _, _), callInvertIntegral(_, _, _, _)

\* unrefFormulaSource(value, variable): v = None is an omitted variable.
unrefFormulaSource(value, v, c) ==
    IF IsFormula(value) THEN evaluate(value.f, v, c) ELSE Ret(unref(value, c), c)

\* this.inputs.map(input => unrefFormulaSource(input, variable)), left to right.
mapInputs(inputs, i, v, c, acc) ==
    IF i > Len(inputs) THEN Ret(acc, c)
    ELSE mapInputs_then(inputs, i, v, acc, unrefFormulaSource(inputs[i], v, c))

mapInputs_then(inputs, i, v, acc, r) ==
    IF r.err # "" THEN r
    ELSE mapInputs(inputs, i + 1, v, r.cells, Append(acc, r.val))

\* Decimal.add(formula.evaluate(), unref(processedStart)) of evalStep.
evalStep_then(env, r) ==
    IF r.err # "" THEN r ELSE Ret(DecAdd(r.val, env.processedStart), r.cells)

\* The closure evalStep of Formula.step.
evalStep(env, lhs, c) ==
    IF DecLt(lhs, env.processedStart) THEN Ret(lhs, c)
    ELSE evalStep_then(env,
            evaluate(env.formula, None,
                     [c EXCEPT ![env.lhsRef] = DecSub(lhs, env.processedStart)]))

\* The closure evalStep of Formula.if.
if_evalStep(env, lhs, c) ==
    IF c[env.processedCondition]
    THEN evaluate(env.formula, None, [c EXCEPT ![env.lhsRef] = lhs])
    ELSE Ret(lhs, c)

\* internalEvaluate.call(this, ...args)
callEvaluate(cb, args, c) ==
    CASE cb.fn = "Decimal.abs" -> Ret(DecAbs(args[1]), c)
      [] cb.fn = "Decimal.neg" -> Ret(DecNeg(args[1]), c)
      [] cb.fn = "Decimal.add" -> Ret(DecAdd(args[1], args[2]), c)
      [] cb.fn = "Decimal.mul" -> Ret(DecMul(args[1], args[2]), c)
      [] cb.fn = "Decimal.pow" -> Ret(DecPow(args[1], args[2]), c)
      [] cb.fn = "Decimal.sign"  -> Ret(DecSign(args[1]), c)
      [] cb.fn = "Decimal.floor" -> Ret(DecFloor(args[1]), c)
      [] cb.fn = "Decimal.max" -> Ret(DecMax(args[1], args[2]), c)
      [] cb.fn = "Decimal.min" -> Ret(DecMin(args[1], args[2]), c)
      [] cb.fn = "evalStep"    -> evalStep(cb.env[1], args[1], c)
      [] cb.fn = "if.evalStep" -> if_evalStep(cb.env[1], args[1], c)

\* evaluate_rest with the override stored in the variable cell.
evaluate_rest_storeOverride(g, v, c) ==
    IF g.internalHasVariable /\ v # None
    THEN Ret(v, IF g.innermostVariable = "undefined" THEN c
                ELSE [c EXCEPT ![g.innermostVariable] = v])
    ELSE unrefFormulaSource(g.inputs[1], None, c)

\* evaluate_rest with the override forwarded to the first input.
evaluate_rest_forwardOverride(g, v, c) ==
    IF g.internalHasVariable /\ v # None THEN Ret(v, c)
    ELSE unrefFormulaSource(g.inputs[1], v, c)

\* (this.internalHasVariable ? variable : null) ?? unrefFormulaSource(this.inputs[0])
evaluate_rest(g, v, c) ==
    IF g.internalHasVariable /\ v # None THEN Ret(v, c)
    ELSE unrefFormulaSource(g.inputs[1], None, c)

\* internalEvaluate?.call(...) ?? the rest
evaluate_result(g, v, r) ==
    IF r.err # "" \/ r.val # None THEN r ELSE evaluate_rest(g, v, r.cells)

evaluate_then(g, v, args) ==
    IF args.err # "" THEN args
    ELSE evaluate_result(g, v,
            callEvaluate(g.internalEvaluate, args.val, args.cells))

evaluate(g, v, c) ==
    IF g.internalEvaluate = Undefined THEN evaluate_rest(g, v, c)
    ELSE evaluate_then(g, v, mapInputs(g.inputs, 1, v, c, << >>))

\* return lhs.invert(value) of invertStep, after the modifier was inverted.
invertStep_then(env, lhs, r) ==
    IF r.err # "" THEN r
    ELSE invert(lhs.f, DecAdd(r.val, env.processedStart), r.cells)

\* The closure invertStep of Formula.step.
invertStep(env, value, lhs, c) ==
    IF hasVariable(lhs)
    THEN IF DecGt(value, env.processedStart)
         THEN invertStep_then(env, lhs,
                invert(env.formula, DecSub(value, env.processedStart), c))
         ELSE invert(lhs.f, value, c)
    ELSE Throw("Could not invert due to no input being a variable", c)

\* ops.passthrough
ops_passthrough(value) == value

\* return lhs.invert(formula.invert(value)) of the invertStep of Formula.if.
if_invertStep_then(lhs, r) ==
    IF r.err # "" THEN r ELSE invert(lhs.f, r.val, r.cells)

\* The closure invertStep of Formula.if.
if_invertStep(env, value, lhs, c) ==
    IF ~hasVariable(lhs)
    THEN Throw("Could not invert due to no input being a variable", c)
    ELSE IF c[env.processedCondition]
    THEN if_invertStep_then(lhs, invert(env.formula, value, c))
    ELSE invert(lhs.f, value, c)

\* The operand an operation callback recurses into (the first variable-bearing
\* input) and, for a binary operation, the other one.
VarIndex(inputs) == IF hasVariable(inputs[1]) THEN 1 ELSE 2

OtherIndex(inputs) == IF hasVariable(inputs[1]) THEN 2 ELSE 1

AnyVariable(inputs) == \E i \in DOMAIN inputs : hasVariable(inputs[i])

\* The analytic inverses, expressed with the value k of the other operand:
\* ops.invertNeg, ops.invertAdd, ops.invertMul, ops.invertPow (variable-bearing
\* base), and the inverses of the antiderivatives ops.invertIntegrateAdd
\* (sqrt(k^2 + 2 value) - k), ops.invertIntegrateMul (sqrt(2 value / k)) and
\* ops.invertIntegratePow (the (k+1)-th root of value * (k+1)).
ops_inverse(cb, value, k) ==
    CASE cb.fn = "ops.invertNeg" -> DecNeg(value)
      [] cb.fn = "ops.invertAdd" -> DecSub(value, k)
      [] cb.fn = "ops.invertMul" -> DecDiv(value, k)
      [] cb.fn = "ops.invertPow" -> DecRoot(value, k)
      [] cb.fn = "ops.invertIntegrateAdd" ->
            DecSub(DecRoot(DecAdd(DecPow(k, Num(2)), DecMul(value, Num(2))),
                           Num(2)), k)
      [] cb.fn = "ops.invertIntegrateMul" ->
            DecRoot(DecDiv(DecMul(value, Num(2)), k), Num(2))
      [] cb.fn = "ops.invertIntegratePow" ->
            DecRoot(DecMul(value, DecAdd(k, Num(1))), DecAdd(k, Num(1)))

ops_invert_then(cb, value, inputs, k) ==
    IF k.err # "" THEN k
    ELSE invert(inputs[VarIndex(inputs)].f, ops_inverse(cb, value, k.val), k.cells)

\* An invert or invert-integral callback of the operations module: it inverts
\* the operation with the other operand's value and recurses into the
\* variable-bearing operand's invert.
ops_invert(cb, value, inputs, c) ==
    IF ~AnyVariable(inputs)
    THEN Throw("Could not invert due to no input being a variable", c)
    ELSE IF Len(inputs) = 1
    THEN invert(inputs[1].f, ops_inverse(cb, value, None), c)
    ELSE ops_invert_then(cb, value, inputs,
            unrefFormulaSource(inputs[OtherIndex(inputs)], None, c))

\* internalInvert.call(this, value, ...this.inputs)
callInvert(cb, value, inputs, c) ==
    CASE cb.fn = "invertStep" -> invertStep(cb.env[1], value, inputs[1], c)
      [] cb.fn = "if.invertStep" -> if_invertStep(cb.env[1], value, inputs[1], c)
      [] cb.fn = "ops.passthrough" -> Ret(ops_passthrough(value), c)
      [] OTHER -> ops_invert(cb, value, inputs, c)

\* invert with the passthrough branch taken for every single-input node, also
\* one without a variable.
invert_anyLeaf(g, value, c) ==
    IF g.internalInvert # Undefined
    THEN callInvert(g.internalInvert, value, g.inputs, c)
    ELSE IF Len(g.inputs) = 1 THEN Ret(value, c)
    ELSE Throw("Cannot invert non-invertible formula", c)

invert(g, value, c) ==
    IF g.internalInvert # Undefined
    THEN callInvert(g.internalInvert, value, g.inputs, c)
    ELSE IF Len(g.inputs) = 1 /\ g.internalHasVariable THEN Ret(value, c)
    ELSE Throw("Cannot invert non-invertible formula", c)

\* ------------------------------------------------------------------ integration
\* A substitution stack: def is FALSE for an omitted stack; s lists the nodes
\* whose applySubstitution closures were pushed, in push order.  With def
\* FALSE, s is the array an earlier outer call allocated and left behind: no
\* argument refers to it.
NoStack == [def |-> FALSE, s |-> << >>]

EmptyStack == [def |-> TRUE, s |-> << >>]

RetI(v, c, st) == [err |-> "", val |-> v, cells |-> c, stack |-> st]

ThrowI(msg, c, st) == [err |-> msg, val |-> None, cells |-> c, stack |-> st]

\* The outcome r of a call, as the outcome of an evaluateIntegral call whose
\* stack is st.
WithStack(r, st) == [err |-> r.err, val |-> r.val, cells |-> r.cells, stack |-> st]

integrateVariable(v) == DecDiv(DecPow(v, Num(2)), Num(2))

integrateVariableInner(g, v, c) ==
    IF v = None /\ g.innermostVariable = "undefined"
    THEN Throw("Cannot integrate non-existent variable", c)
    ELSE Ret(IF v # None THEN v ELSE c[g.innermostVariable], c)

\* ops.applySubstitutionNeg
ops_applySubstitutionNeg(value) == DecNeg(value)

ops_applySubstitutionMul_then(value, k) ==
    IF k.err # "" THEN k ELSE Ret(DecDiv(value, k.val), k.cells)

\* ops.applySubstitutionMul: the integral is divided by the constant factor.
ops_applySubstitutionMul(value, inputs, c) ==
    IF ~AnyVariable(inputs)
    THEN Throw("Could not apply substitution due to no input being a variable", c)
    ELSE ops_applySubstitutionMul_then(value,
            unrefFormulaSource(inputs[OtherIndex(inputs)], None, c))

\* this.applySubstitution.call(this, variable, ...this.inputs)
callSubstitution(cb, value, inputs, c) ==
    CASE cb.fn = "ops.passthrough"          -> Ret(ops_passthrough(value), c)
      [] cb.fn = "ops.applySubstitutionNeg" -> Ret(ops_applySubstitutionNeg(value), c)
      [] cb.fn = "ops.applySubstitutionMul" ->
            ops_applySubstitutionMul(value, inputs, c)

applyStack_then(s, i, r) ==
    IF r.err # "" THEN r ELSE applyStack(s, i + 1, r.val, r.cells)

\* stack.forEach(func => (value = func(value)))
applyStack(s, i, value, c) ==
    IF i > Len(s) THEN Ret(value, c)
    ELSE applyStack_then(s, i,
            callSubstitution(s[i].applySubstitution, value, s[i].inputs, c))

\* The antiderivatives, from the integral x of the variable-bearing operand,
\* the value k of the other operand and the variable var: ops.integrateNeg,
\* ops.integrateAdd (x + k * var), ops.integrateInnerAdd (the sum itself,
\* inside a complex operation), ops.integrateMul and ops.integratePow
\* (x^(k+1) / (k+1), variable-bearing base).
\* ops_integral with the constant term of a sum left unintegrated.
ops_integral_addConstant(cb, x, k, var) ==
    CASE cb.fn = "ops.integrateNeg"      -> DecNeg(x)
      [] cb.fn = "ops.integrateAdd"      -> DecAdd(x, k)
      [] cb.fn = "ops.integrateInnerAdd" -> DecAdd(x, k)
      [] cb.fn = "ops.integrateMul"      -> DecMul(x, k)
      [] cb.fn = "ops.integratePow"      ->
            DecDiv(DecPow(x, DecAdd(k, Num(1))), DecAdd(k, Num(1)))

ops_integral(cb, x, k, var) ==
    CASE cb.fn = "ops.integrateNeg"      -> DecNeg(x)
      [] cb.fn = "ops.integrateAdd"      -> DecAdd(x, DecMul(k, var))
      [] cb.fn = "ops.integrateInnerAdd" -> DecAdd(x, k)
      [] cb.fn = "ops.integrateMul"      -> DecMul(x, k)
      [] cb.fn = "ops.integratePow"      ->
            DecDiv(DecPow(x, DecAdd(k, Num(1))), DecAdd(k, Num(1)))

\* variable ?? unref(lhs.innermostVariable)
ops_variableValue(g, v, c) ==
    IF v # None THEN v
    ELSE IF g.innermostVariable = "undefined" THEN None
    ELSE c[g.innermostVariable]

ops_integrate_other(cb, g, v, r, k) ==
    IF k.err # "" THEN ThrowI(k.err, k.cells, r.stack)
    ELSE RetI(ops_integral(cb, r.val, k.val,
                           ops_variableValue(g.inputs[VarIndex(g.inputs)].f, v, k.cells)),
              k.cells, r.stack)

ops_integrate_then(cb, g, v, r) ==
    IF r.err # "" THEN r
    ELSE IF Len(g.inputs) = 1
    THEN RetI(ops_integral(cb, r.val, None, None), r.cells, r.stack)
    ELSE ops_integrate_other(cb, g, v, r,
            unrefFormulaSource(g.inputs[OtherIndex(g.inputs)], None, r.cells))

\* An integrate or integrate-inner callback of the operations module: it
\* integrates the variable-bearing operand, passing the stack on, and combines
\* the result with the other operand's value.
ops_integrate(cb, g, v, stack, c) ==
    IF ~AnyVariable(g.inputs)
    THEN ThrowI("Could not integrate due to no input being a variable", c, stack)
    ELSE ops_integrate_then(cb, g, v,
            evaluateIntegral(g.inputs[VarIndex(g.inputs)].f, v, stack, c))

\* internalIntegrate.call(this, variable, stack, ...this.inputs), and the same
\* for internalIntegrateInner.
callIntegrate(cb, g, v, stack, c) ==
    CASE cb.fn = "integrateVariable" -> RetI(integrateVariable(v), c, stack)
      [] cb.fn = "integrateVariableInner" ->
            WithStack(integrateVariableInner(g, v, c), stack)
      [] OTHER -> ops_integrate(cb, g, v, stack, c)

\* The array the outer call allocated, once the call has returned: the caller
\* passed no stack and the array is left behind.
evaluateIntegral_left(st) == [def |-> FALSE, s |-> st.s]

\* stack.forEach(...) on the value the integrate callback returned; stack is
\* the caller's (omitted) stack.
evaluateIntegral_apply(stack, r) ==
    IF r.err # "" THEN ThrowI(r.err, r.cells, evaluateIntegral_left(r.stack))
    ELSE WithStack(applyStack(r.stack.s, 1, r.val, r.cells),
                   evaluateIntegral_left(r.stack))

\* evaluateIntegral_newStack with the array of the earlier call taken up again.
evaluateIntegral_keepStack(stack) == [stack EXCEPT !.def = TRUE]

\* stack = [] of the complex node: a new array, whatever an earlier call left.
evaluateIntegral_newStack(stack) == EmptyStack

\* integrateVariable(u) of the outer bare-leaf branch.
evaluateIntegral_bare(u, stack) ==
    IF u.err # "" THEN WithStack(u, stack)
    ELSE RetI(integrateVariable(u.val), u.cells, stack)

evaluateIntegral_pushFirst(g, v, stack, c) ==
    IF ~stack.def
    THEN IF g.applySubstitution = Undefined
         THEN IF g.internalIntegrate = Undefined
              THEN ThrowI("Cannot integrate formula with non-existent operation",
                          c, stack)
              ELSE evaluateIntegral_apply(stack,
                      callIntegrate(g.internalIntegrate, g, v,
                                    evaluateIntegral_newStack(stack), c))
         ELSE IF g.internalIntegrate # Undefined
              THEN WithStack(callIntegrate(g.internalIntegrate, g, v, stack, c),
                             stack)
              ELSE IF Len(g.inputs) = 1 /\ g.internalHasVariable
              THEN evaluateIntegral_bare(
                      IF v # None THEN Ret(v, c)
                      ELSE unrefFormulaSource(g.inputs[1], None, c), stack)
              ELSE ThrowI("Cannot integrate formula without variable", c, stack)
    ELSE IF g.applySubstitution = Undefined
         THEN ThrowI("Cannot have two complex operations in an integrable formula",
                     c, [stack EXCEPT !.s = Append(@, g)])
         ELSE LET st == [stack EXCEPT !.s = Append(@, g)]
              IN  IF g.internalIntegrateInner # Undefined
                  THEN callIntegrate(g.internalIntegrateInner, g, v, st, c)
                  ELSE IF g.internalIntegrate # Undefined
                  THEN callIntegrate(g.internalIntegrate, g, v, st, c)
                  ELSE IF Len(g.inputs) = 1 /\ g.internalHasVariable
                  THEN WithStack(IF v # None THEN Ret(v, c)
                                 ELSE unrefFormulaSource(g.inputs[1], None, c), st)
                  ELSE ThrowI("Cannot integrate formula without variable", c, st)

evaluateIntegral(g, v, stack, c) ==
    IF ~stack.def
    THEN IF g.applySubstitution = Undefined
         THEN IF g.internalIntegrate = Undefined
              THEN ThrowI("Cannot integrate formula with non-existent operation",
                          c, stack)
              ELSE evaluateIntegral_apply(stack,
                      callIntegrate(g.internalIntegrate, g, v,
                                    evaluateIntegral_newStack(stack), c))
         ELSE IF g.internalIntegrate # Undefined
              THEN WithStack(callIntegrate(g.internalIntegrate, g, v, stack, c),
                             stack)
              ELSE IF Len(g.inputs) = 1 /\ g.internalHasVariable
              THEN evaluateIntegral_bare(
                      IF v # None THEN Ret(v, c)
                      ELSE unrefFormulaSource(g.inputs[1], None, c), stack)
              ELSE ThrowI("Cannot integrate formula without variable", c, stack)
    ELSE IF g.applySubstitution = Undefined
         THEN ThrowI("Cannot have two complex operations in an integrable formula",
                     c, stack)
         ELSE LET st == [stack EXCEPT !.s = Append(@, g)]
              IN  IF g.internalIntegrateInner # Undefined
                  THEN callIntegrate(g.internalIntegrateInner, g, v, st, c)
                  ELSE IF g.internalIntegrate # Undefined
                  THEN callIntegrate(g.internalIntegrate, g, v, st, c)
                  ELSE IF Len(g.inputs) = 1 /\ g.internalHasVariable
                  THEN WithStack(IF v # None THEN Ret(v, c)
                                 ELSE unrefFormulaSource(g.inputs[1], None, c), st)
                  ELSE ThrowI("Cannot integrate formula without variable", c, st)

\* internalInvertIntegral.call(this, value, ...this.inputs)
callInvertIntegral(cb, value, inputs, c) ==
    IF cb.fn = "ops.passthrough" THEN Ret(ops_passthrough(value), c)
    ELSE ops_invert(cb, value, inputs, c)

invertIntegral(g, value, c) ==
    IF g.internalInvertIntegral # Undefined
    THEN callInvertIntegral(g.internalInvertIntegral, value, g.inputs, c)
    ELSE IF Len(g.inputs) = 1 /\ g.internalHasVariable THEN Ret(value, c)
    ELSE Throw("Cannot invert integral of formula without invertible integral", c)

\* ---------------------------------------------------------------------- equals
RECURSIVE equals(_, _, _)

\* equals with the inputs compared without regard to their position.
equals_unordered(g, other, c) ==
    /\ Len(g.inputs) = Len(other.inputs)
    /\ \A i \in DOMAIN g.inputs : \E j \in DOMAIN other.inputs :
          IF IsFormula(g.inputs[i]) /\ IsFormula(other.inputs[j])
          THEN equals(g.inputs[i].f, other.inputs[j].f, c)
          ELSE /\ ~IsFormula(g.inputs[i])
               /\ ~IsFormula(other.inputs[j])
               /\ DecEq(unref(g.inputs[i], c), unref(other.inputs[j], c))
    /\ g.internalEvaluate = other.internalEvaluate
    /\ g.internalInvert = other.internalInvert
    /\ g.internalIntegrate = other.internalIntegrate
    /\ g.internalInvertIntegral = other.internalInvertIntegral
    /\ g.internalHasVariable = other.internalHasVariable

\* Callbacks are compared by identity: a shared function equals itself, and an
\* unset field equals an unset field.
equals(g, other, c) ==
    /\ Len(g.inputs) = Len(other.inputs)
    /\ \A i \in DOMAIN g.inputs :
          IF IsFormula(g.inputs[i]) /\ IsFormula(other.inputs[i])
          THEN equals(g.inputs[i].f, other.inputs[i].f, c)
          ELSE /\ ~IsFormula(g.inputs[i])
               /\ ~IsFormula(other.inputs[i])
               /\ DecEq(unref(g.inputs[i], c), unref(other.inputs[i], c))
    /\ g.internalEvaluate = other.internalEvaluate
    /\ g.internalInvert = other.internalInvert
    /\ g.internalIntegrate = other.internalIntegrate
    /\ g.internalInvertIntegral = other.internalInvertIntegral
    /\ g.internalHasVariable = other.internalHasVariable

\* ------------------------------------------------------------ purchase utilities
\* unref(formula.innermostVariable) ?? 0
currentVariable(g, c) ==
    IF g.innermostVariable = "undefined" THEN Num(0) ELSE D(c[g.innermostVariable])

\* Decimal.floor(r)
floorOf(r) == IF r.err # "" THEN r ELSE Ret(DecFloor(r.val), r.cells)

\* Decimal.floor(r).sub(unref(formula.innermostVariable) ?? 0)
calculateMaxAffordable_sub(formula, r) ==
    IF r.err # "" THEN r
    ELSE Ret(DecSub(DecFloor(r.val), currentVariable(formula, r.cells)), r.cells)

\* formula.invertIntegral(Decimal.add(resource.value, i))
calculateMaxAffordable_then(formula, balance, i) ==
    IF i.err # "" THEN Throw(i.err, i.cells)
    ELSE calculateMaxAffordable_sub(formula,
            invertIntegral(formula, DecAdd(balance, i.val), i.cells))

\* calculateMaxAffordable with the current value subtracted in both modes.
calculateMaxAffordable_alwaysSubtract(formula, balance, spendResources, c) ==
    IF spendResources
    THEN IF ~isIntegrable(formula) \/ ~isIntegralInvertible(formula)
         THEN Throw("Cannot calculate max affordable of formula with non-invertible integral", c)
         ELSE calculateMaxAffordable_then(formula, balance,
                evaluateIntegral(formula, None, NoStack, c))
    ELSE IF ~isInvertible(formula)
         THEN Throw("Cannot calculate max affordable of non-invertible formula", c)
         ELSE calculateMaxAffordable_sub(formula, invert(formula, balance, c))

\* The value of the computed ref calculateMaxAffordable returns, read once;
\* balance is resource.value.
calculateMaxAffordable(formula, balance, spendResources, c) ==
    IF spendResources
    THEN IF ~isIntegrable(formula) \/ ~isIntegralInvertible(formula)
         THEN Throw("Cannot calculate max affordable of formula with non-invertible integral", c)
         ELSE calculateMaxAffordable_then(formula, balance,
                evaluateIntegral(formula, None, NoStack, c))
    ELSE IF ~isInvertible(formula)
         THEN Throw("Cannot calculate max affordable of non-invertible formula", c)
         ELSE floorOf(invert(formula, balance, c))

\* Decimal.sub(a, b)
calculateCost_sub(a, b) ==
    IF b.err # "" THEN Throw(b.err, b.cells)
    ELSE Ret(DecSub(a.val, b.val), b.cells)

\* Decimal.sub(a, formula.evaluateIntegral())
calculateCost_then(formula, a) ==
    IF a.err # "" THEN Throw(a.err, a.cells)
    ELSE calculateCost_sub(a, evaluateIntegral(formula, None, NoStack, a.cells))

calculateCost(formula, amountToBuy, spendResources, c) ==
    LET newValue == DecAdd(amountToBuy, currentVariable(formula, c))
    IN  IF spendResources
        THEN calculateCost_then(formula,
                evaluateIntegral(formula, newValue, NoStack, c))
        ELSE evaluate(formula, newValue, c)

\* ------------------------------------------------------------------ the model
\* The numbers the calls are given: 0..MaxVal and the values of the documented
\* scenarios.
Scenario == {16, 100, 200, 250}

Values == {Num(n) : n \in (0 .. MaxVal) \cup Scenario}

Starts == {Num(2), Num(150)}

Leaves == {variable("x"), constant(ValueSrc(Num(5)))}

\* The operation nodes built over a formula g by the factories.
Wrap(g) ==
    {add(FormulaSrc(g), ValueSrc(Num(1))),
     add(ValueSrc(Num(1)), FormulaSrc(g)),
     add(FormulaSrc(g), FormulaSrc(variable("x"))),
     mul(FormulaSrc(g), ValueSrc(Num(2))),
     pow(FormulaSrc(g), ValueSrc(Num(2))),
     abs(FormulaSrc(g)),
     neg(FormulaSrc(g))}
    \cup {step(FormulaSrc(g), st, m) : st \in Starts, m \in Modifiers}
    \cup {conditional(FormulaSrc(g), "cond", m) : m \in Modifiers}

RECURSIVE Built(_)
Built(d) ==
    IF d = 0 THEN Leaves
    ELSE LET prev == Built(d - 1)
         IN  prev \cup UNION {Wrap(g) : g \in {h \in prev : Depth(h) = d - 1}}

\* The formula of the documented integration scenario, add(mul(variable, 2), 3),
\* and a comparison node, max(variable, 1).
Documented ==
    {add(FormulaSrc(mul(FormulaSrc(variable("x")), ValueSrc(Num(2)))),
         ValueSrc(Num(3))),
     max(FormulaSrc(variable("x")), ValueSrc(Num(1)))}

\* A complex node over a chain of two linear nodes: pow(mul(neg(variable), 2), 2).
Chains ==
    {pow(FormulaSrc(mul(FormulaSrc(neg(FormulaSrc(variable("x")))),
                        ValueSrc(Num(2)))),
         ValueSrc(Num(2)))}

FormulaSet == {g \in Built(MaxDepth) \cup Documented \cup Chains : g.err = ""}

\* The numeric cells: the variable cell and the cells the combinators own.
NumberCells == {"x"} \cup {"lhsRef" \o ToString(d) : d \in 0 .. MaxDepth}

\* The cells: the numeric ones and the boolean cell of the condition.
CellNames == NumberCells \cup {"cond"}

\* A call: the operation, its numeric argument, the spendResources flag, the
\* options of a constructor call, the other formula of an equals call and the
\* substitution stack handed to an inner evaluateIntegral call; for a repeated
\* outer evaluateIntegral call, the number of the call and the outcome of the
\* call before it.
NoCall ==
    [op |-> "none", arg |-> None, spend |-> FALSE, options |-> NoOptions,
     other |-> NoProps, stack |-> NoStack, n |-> 0,
     before |-> [err |-> "", val |-> None, stack |-> << >>]]

NoRes == [err |-> "", val |-> None]

Outcome(r) == [err |-> r.err, val |-> r.val]

\* The call ends with outcome r: the caller sees the result, the cells are as
\* the call left them.
Returns(r) == res' = Outcome(r) /\ cells' = r.cells

Init ==
    /\ f \in FormulaSet
    /\ \E b \in BOOLEAN :
         cells = [n \in CellNames |-> IF n = "cond" THEN b ELSE Num(0)]
    /\ call = NoCall
    /\ res = NoRes

\* Calls are synchronous and one at a time: a call is made when the previous
\* result has been consumed.  The caller consumes the result and writes the
\* variable cell between calls.
SetVariable ==
    \E n \in 0 .. MaxVal :
        /\ cells' = [cells EXCEPT !["x"] = Num(n)]
        /\ call' = NoCall
        /\ res' = NoRes
        /\ UNCHANGED f

\* The owner of the condition cell toggles it between calls.
ToggleCondition ==
    /\ cells' = [cells EXCEPT !["cond"] = ~@]
    /\ call' = NoCall
    /\ res' = NoRes
    /\ UNCHANGED f

\* The inputs a caller of the constructor passes: the formula at hand, a
\* variable leaf, a number.
InputSources == {FormulaSrc(f), FormulaSrc(variable("x")), ValueSrc(Num(1))}

InputLists == UNION {[1 .. k -> InputSources] : k \in 0 .. MaxInputs}

\* The options of a constructor call without `variable`: either only inputs,
\* or inputs (at least one), an evaluate callback, and any of an invert
\* callback, an invert-integral callback and the hasVariable flag.
OptionSet ==
    {[NoOptions EXCEPT !.keys = {"inputs"}, !.inputs = i] : i \in InputLists}
    \cup
    {[NoOptions EXCEPT
        !.keys = {"inputs", "evaluate"},
        !.inputs = i,
        !.evaluate = Fn(IF Len(i) = 1 THEN "Decimal.abs" ELSE "Decimal.max"),
        !.invert = inv,
        !.invertIntegral = invInt,
        !.hasVariable = hv] :
       i \in InputLists \ {<< >>},
       inv \in {Undefined, Fn("ops.passthrough")},
       invInt \in {Undefined, Fn("ops.passthrough")},
       hv \in BOOLEAN}

\* new Formula(options): the caller gets the node, or the fault.
Constructed(p) ==
    /\ res' = [err |-> p.err, val |-> IF p.err = "" THEN p ELSE None]
    /\ UNCHANGED <<f, cells>>

Construct ==
    /\ call = NoCall
    /\ \E options \in OptionSet :
         /\ call' = [NoCall EXCEPT !.op = "new", !.options = options]
         /\ Constructed(NewFormula(options))

\* The formulas f is compared with: itself, the leaves, and the nodes the
\* factories build over the inputs of f, in the same and in the opposite
\* order.
Others ==
    {f} \cup Leaves
    \cup (IF Len(f.inputs) = 1
          THEN {abs(f.inputs[1]), sign(f.inputs[1]), floor(f.inputs[1]),
                neg(f.inputs[1])}
          ELSE {})
    \cup (IF Len(f.inputs) = 2
          THEN {add(f.inputs[1], f.inputs[2]), add(f.inputs[2], f.inputs[1]),
                mul(f.inputs[1], f.inputs[2]),
                max(f.inputs[1], f.inputs[2]), min(f.inputs[1], f.inputs[2])}
          ELSE {})

Equals ==
    /\ call = NoCall
    /\ \E other \in {o \in Others : o.err = ""} :
         /\ call' = [NoCall EXCEPT !.op = "equals", !.other = other]
         /\ res' = [err |-> "", val |-> equals(f, other, cells)]
         /\ UNCHANGED <<f, cells>>

Evaluate ==
    \E v \in Values \cup {None} :
        /\ call = NoCall
        /\ call' = [NoCall EXCEPT !.op = "evaluate", !.arg = v]
        /\ Returns(evaluate(f, v, cells))
        /\ UNCHANGED f

Invert ==
    \E v \in Values :
        /\ call = NoCall
        /\ call' = [NoCall EXCEPT !.op = "invert", !.arg = v]
        /\ Returns(invert(f, v, cells))
        /\ UNCHANGED f

EvaluateIntegral ==
    \E v \in Values \cup {None} :
        /\ call = NoCall
        /\ call' = [NoCall EXCEPT !.op = "evaluateIntegral", !.arg = v]
        /\ Returns(evaluateIntegral(f, v, NoStack, cells))
        /\ UNCHANGED f

InvertIntegral ==
    \E v \in Values :
        /\ call = NoCall
        /\ call' = [NoCall EXCEPT !.op = "invertIntegral", !.arg = v]
        /\ Returns(invertIntegral(f, v, cells))
        /\ UNCHANGED f

CalculateMaxAffordable ==
    \E b \in Values, spendResources \in BOOLEAN :
        /\ call = NoCall
        /\ call' = [NoCall EXCEPT !.op = "calculateMaxAffordable", !.arg = b, !.spend = spendResources]
        /\ Returns(calculateMaxAffordable(f, b, spendResources, cells))
        /\ UNCHANGED f

CalculateCost ==
    \E n \in Values, spendResources \in BOOLEAN :
        /\ call = NoCall
        /\ call' = [NoCall EXCEPT !.op = "calculateCost", !.arg = n, !.spend = spendResources]
        /\ Returns(calculateCost(f, n, spendResources, cells))
        /\ UNCHANGED f

Next ==
    \/ SetVariable
    \/ ToggleCondition
    \/ Evaluate
    \/ Invert
    \/ EvaluateIntegral
    \/ InvertIntegral
    \/ CalculateMaxAffordable
    \/ CalculateCost

Spec == Init /\ [][Next]_vars

\* The constructor is a function of its options alone: it is checked on every
\* option record, over every formula the inputs can be drawn from.
SpecConstruct == Init /\ [][Construct]_vars

\* equals reads the two trees and the cells, and writes nothing: it is checked
\* on every pair of a formula and one of the formulas it is compared with.
SpecEquals == Init /\ [][Equals]_vars

\* The stacks an integrate callback hands to evaluateIntegral: the fresh one of
\* the complex node, or one a linear node has already pushed onto.
InnerStacks == {EmptyStack, [def |-> TRUE, s |-> <<neg(FormulaSrc(variable("x")))>>]}

\* The outcome of an inner evaluateIntegral call: what it returned or threw,
\* and the caller's stack as the call left it.
OutcomeInner(r) == [err |-> r.err, val |-> r.val, stack |-> r.stack.s]

ReturnsInner(r) == res' = OutcomeInner(r) /\ cells' = r.cells

\* f.evaluateIntegral(v, stack), as an integrate callback of an enclosing node
\* calls it on its variable-bearing input.
EvaluateIntegralInner ==
    /\ call = NoCall
    /\ \E v \in Values \cup {None}, stack \in InnerStacks :
          /\ call' = [NoCall EXCEPT !.op = "evaluateIntegralInner", !.arg = v,
                                    !.stack = stack]
          /\ ReturnsInner(evaluateIntegral(f, v, stack, cells))
          /\ UNCHANGED f

SpecInner == Init /\ [][EvaluateIntegralInner]_vars

\* The outcome of an outer evaluateIntegral call: what it returned or threw,
\* and the array the call left behind.
OutcomeOuter(r) == [err |-> r.err, val |-> r.val, stack |-> r.stack.s]

ReturnsOuter(r) == res' = OutcomeOuter(r) /\ cells' = r.cells

\* f.evaluateIntegral(v): the first outer call.
EvaluateIntegralOuter ==
    /\ call = NoCall
    /\ \E v \in Values \cup {None} :
          /\ call' = [NoCall EXCEPT !.op = "evaluateIntegral", !.arg = v, !.n = 1]
          /\ ReturnsOuter(evaluateIntegral(f, v, NoStack, cells))
          /\ UNCHANGED f

\* f.evaluateIntegral(v) once more, with the same argument, on the same tree:
\* the array of the call before is what that call left.
EvaluateIntegralRepeat ==
    /\ call.op = "evaluateIntegral"
    /\ call.n < MaxCalls
    /\ call' = [call EXCEPT !.n = @ + 1, !.before = res]
    /\ ReturnsOuter(evaluateIntegral(f, call.arg,
                                     [def |-> FALSE, s |-> res.stack], cells))
    /\ UNCHANGED f

SpecRepeat == Init /\ [][EvaluateIntegralOuter \/ EvaluateIntegralRepeat]_vars

\* ------------------------------------------------------------------ the claims
\* The formulas of the documented scenarios.
X == variable("x")

F_AddPow == pow(FormulaSrc(add(FormulaSrc(X), ValueSrc(Num(1)))), ValueSrc(Num(2)))

F_Pow == pow(FormulaSrc(X), ValueSrc(Num(2)))

F_Step == step(FormulaSrc(X), Num(150), "mul2")

F_TwoVariables == add(FormulaSrc(X), FormulaSrc(X))

F_Constant == constant(ValueSrc(Num(5)))

Returned(v) == [err |-> "", val |-> v]

\* C1: variable(x).add(1).pow(2).evaluate(v) equals (v+1)^2 for every v,
\* whatever the value of the cell x.
C1_EvaluateAppliesOperation ==
    (f = F_AddPow /\ call.op = "evaluate" /\ call.arg # None)
        => res = Returned(DecPow(DecAdd(call.arg, Num(1)), Num(2)))

\* C2: for every invertible formula, invert(v) returns a value that evaluates
\* back to v; variable(x).add(1).pow(2).invert(16) is 3 and
\* step(variable(x), 150, v => v.mul(2)).invert(250) is 200.
C2_InvertRoundTrip ==
    (call.op = "invert" /\ isInvertible(f))
        => /\ res.err = ""
           /\ Outcome(evaluate(f, res.val, cells)) = Returned(call.arg)
           /\ (f = F_AddPow /\ call.arg = Num(16)) => res.val = Num(3)
           /\ (f = F_Step /\ call.arg = Num(250)) => res.val = Num(200)

\* C3: when isInvertible() is true, invert never raises the
\* "Cannot invert non-invertible formula" fault.
C3_InvertibleNeverFaults ==
    (call.op = "invert" /\ isInvertible(f))
        => res.err # "Cannot invert non-invertible formula"

\* C4: when isInvertible() is false, invert raises a fault and returns no
\* value, for every argument.
C4_NonInvertibleFaults ==
    (call.op = "invert" /\ ~isInvertible(f)) => (res.err # "" /\ res.val = None)

C4_Witness ==
    /\ call.op = "invert"
    /\ f = F_TwoVariables
    /\ ~isInvertible(f)
    /\ res.err = "Cannot invert non-invertible formula"

\* C5: with spendResources false, calculateMaxAffordable returns
\* floor(invert(balance)) for every invertible formula; for pow(variable, 2) it
\* returns b for every perfect-square balance b^2 (10 for 100).
C5_MaxAffordableIsFloorOfInverse ==
    (call.op = "calculateMaxAffordable" /\ ~call.spend /\ isInvertible(f))
        => /\ res.err = ""
           /\ res.val = DecFloor(invert(f, call.arg, cells).val)
           /\ (f = F_Pow /\ ~IsNaN(DecRoot(call.arg, Num(2))))
                 => res.val = DecRoot(call.arg, Num(2))

\* C6: calculateMaxAffordable raises a fault exactly when the formula lacks
\* the capability its mode requires.
C6_MaxAffordableFaultsIffIncapable ==
    (call.op = "calculateMaxAffordable")
        => LET capable == IF call.spend
                          THEN isIntegrable(f) /\ isIntegralInvertible(f)
                          ELSE isInvertible(f)
           IN  (res.err # "") <=> ~capable

\* C7 (for the bare variable leaf, which the claim includes): with
\* spendResources true, calculateCost(f, n) is
\* evaluateIntegral(n + c) - evaluateIntegral(c), c the current value of the
\* variable cell.
C7_CostIsDefiniteIntegral ==
    (call.op = "calculateCost" /\ call.spend /\ f = X)
        => LET cur == currentVariable(f, cells)
               hi == evaluateIntegral(f, DecAdd(call.arg, cur), NoStack, cells)
               lo == evaluateIntegral(f, cur, NoStack, cells)
           IN  res = Returned(DecSub(hi.val, lo.val))

\* evaluate is non-negative and non-decreasing in the variable.
NonNegativeNonDecreasing(g) ==
    \A a, b \in Values :
        LET ea == evaluate(g, a, cells)
            eb == evaluate(g, b, cells)
        IN  /\ ea.err = "" /\ eb.err = ""
            /\ DecLte(Num(0), ea.val)
            /\ DecLte(a, b) => DecLte(ea.val, eb.val)

\* C8: for a formula whose evaluate is non-negative and non-decreasing, the
\* cost with spendResources true is non-decreasing in the amount bought.
C8_CostMonotonic ==
    (call.op = "calculateCost" /\ call.spend /\ res.err = ""
     /\ NonNegativeNonDecreasing(f))
        => \A n1 \in Values :
              LET c1 == calculateCost(f, n1, TRUE, cells)
              IN  (DecLte(n1, call.arg) /\ c1.err = "") => DecLte(c1.val, res.val)

\* C9: a formula without a variable ignores the override: evaluate(o) is
\* evaluate(), and constant(5) evaluates to 5 for every override.
C9_OverrideIgnoredWithoutVariable ==
    (call.op = "evaluate" /\ ~Formula_hasVariable(f))
        => /\ res = Outcome(evaluate(f, None, cells))
           /\ f = F_Constant => res = Returned(Num(5))

C9_Witness ==
    /\ call.op = "evaluate"
    /\ call.arg = Num(3)
    /\ f = F_Constant
    /\ ~Formula_hasVariable(f)
    /\ res = Returned(Num(5))

\* C10: step(variable(x), 150, v => v.mul(2)).evaluate(x) is x below 150 and
\* 150 + 2 * (x - 150) from 150 on (100 at 100, 250 at 200).
C10_StepPiecewise ==
    (f = F_Step /\ call.op = "evaluate" /\ call.arg # None)
        => res = Returned(IF DecLt(call.arg, Num(150)) THEN call.arg
                          ELSE DecAdd(Num(150),
                                      DecMul(Num(2), DecSub(call.arg, Num(150)))))

\* C11: conditional(value, condition, modifier) evaluated at x returns
\* modifier(x) when the condition cell is true at that call and x when it is
\* false, whatever toggles came before.
F_Conditional(m) == conditional(FormulaSrc(X), "cond", m)

ModifierValue(m, x) ==
    IF m = "mul2" THEN DecMul(x, Num(2)) ELSE DecAdd(x, Num(1))

C11_ConditionalAppliesModifier ==
    \A m \in {"mul2", "add1"} :
        (f = F_Conditional(m) /\ call.op = "evaluate" /\ call.arg # None) =>
            res = Returned(IF cells["cond"] THEN ModifierValue(m, call.arg)
                           ELSE call.arg)

\* The number of variable-bearing inputs among the inputs of a constructor call.
NumVariables(inputs) ==
    Cardinality({i \in DOMAIN inputs : hasVariable(inputs[i])})

\* C12: constructing an operation node over more than one variable-bearing
\* input fails and yields no node.
C12_TwoVariablesRejected ==
    (call.op = "new" /\ "evaluate" \in call.options.keys
        /\ NumVariables(call.options.inputs) > 1)
    => res.err # ""

\* C13: a constructor call with neither an evaluate callback nor a variable
\* succeeds iff it is given exactly one input, and then yields a constant leaf
\* over that input with hasVariable() false.
C13_ConstantNeedsOneInput ==
    (call.op = "new" /\ "evaluate" \notin call.options.keys
        /\ "variable" \notin call.options.keys)
    => /\ (res.err = "") <=> (Len(call.options.inputs) = 1)
       /\ res.err = "" =>
            /\ ~Formula_hasVariable(res.val)
            /\ res.val.inputs = call.options.inputs

C13_Witness ==
    /\ call.op = "new"
    /\ "evaluate" \notin call.options.keys
    /\ Len(call.options.inputs) = 2
    /\ res.err = "Evaluate function is required if inputs is not length 1"

\* C14: with the hasVariable flag set, construction of an operation node fails
\* iff neither an invert nor an invert-integral callback is supplied, and a
\* node that has its variable only through the flag keeps a supplied callback
\* for invert or invertIntegral to call.
C14_FlaggedVariableIsSolvable ==
    (call.op = "new" /\ "evaluate" \in call.options.keys
        /\ call.options.hasVariable)
    => /\ (res.err # "") <=>
            (call.options.invert = Undefined
             /\ call.options.invertIntegral = Undefined)
       /\ (res.err = "" /\ NumVariables(call.options.inputs) = 0) =>
            /\ Formula_hasVariable(res.val)
            /\ \/ res.val.internalInvert # Undefined
               \/ res.val.internalInvertIntegral # Undefined

\* C15: a node built by a factory that supplies no invert callback (abs, sign,
\* floor) reports isInvertible() false, also over a variable leaf.
C15_NoInvertCallbackNotInvertible ==
    (Len(f.inputs) = 1
        /\ f \in {abs(f.inputs[1]), sign(f.inputs[1]), floor(f.inputs[1])})
    => ~isInvertible(f)

\* C16: a node built by a factory that supplies no invert-integral callback
\* (neg) reports isIntegralInvertible() false, also over a variable leaf.
C16_NoInvertIntegralCallbackNotIntegralInvertible ==
    (Len(f.inputs) = 1 /\ f = neg(f.inputs[1])) => ~isIntegralInvertible(f)

\* C17: for an integral-invertible formula, the bare variable leaf included,
\* invertIntegral applied to evaluateIntegral(v) gives v back.
C17_IntegralRoundTrip ==
    (call.op = "evaluateIntegral" /\ call.arg # None /\ res.err = ""
        /\ isIntegralInvertible(f))
    => Outcome(invertIntegral(f, res.val, cells)) = Returned(call.arg)

\* C18: the integral of add(mul(variable, 2), 3) is x^2 + 3x up to a constant:
\* between any two sample points it differs as the closed form does.
F_Linear ==
    add(FormulaSrc(mul(FormulaSrc(X), ValueSrc(Num(2)))), ValueSrc(Num(3)))

ClosedForm(x) == DecAdd(DecPow(x, Num(2)), DecMul(Num(3), x))

C18_IntegralClosedForm ==
    (f = F_Linear /\ call.op = "evaluateIntegral" /\ call.arg # None)
    => /\ res.err = ""
       /\ \A x1 \in Values :
            LET r1 == Outcome(evaluateIntegral(f, x1, NoStack, cells))
            IN  /\ r1.err = ""
                /\ DecSub(res.val, r1.val)
                     = DecSub(ClosedForm(call.arg), ClosedForm(x1))

C18_Witness ==
    /\ f = F_Linear
    /\ call.op = "evaluateIntegral"
    /\ call.arg = Num(3)
    /\ res = Returned(Num(18))

\* The comparison equals makes of one input with another.
SameInput(a, b) ==
    IF IsFormula(a) /\ IsFormula(b) THEN equals(a.f, b.f, cells)
    ELSE ~IsFormula(a) /\ ~IsFormula(b) /\ DecEq(unref(a, cells), unref(b, cells))

\* C19: a formula equals itself and a separately built tree over the same
\* inputs, and add(a, b) does not equal add(b, a) when a and b are not equal.
C19_StructuralEquality ==
    call.op = "equals" =>
        /\ call.other = f => res.val = TRUE
        /\ (Len(f.inputs) = 2
              /\ f = add(f.inputs[1], f.inputs[2])
              /\ call.other = add(f.inputs[2], f.inputs[1])
              /\ ~SameInput(f.inputs[1], f.inputs[2]))
           => res.val = FALSE

C19_Witness ==
    /\ call.op = "equals"
    /\ f = add(FormulaSrc(X), ValueSrc(Num(1)))
    /\ call.other = add(ValueSrc(Num(1)), FormulaSrc(X))
    /\ res.val = FALSE

\* C20: nodes built by different operations over the same inputs are never
\* equal: abs(x) equals neither floor(x) nor sign(x), and max(x, 1) does not
\* equal min(x, 1).
C20_DifferentOperationsDiffer ==
    call.op = "equals" =>
        /\ (Len(f.inputs) = 1 /\ f = abs(f.inputs[1])
              /\ call.other \in {floor(f.inputs[1]), sign(f.inputs[1])})
           => res.val = FALSE
        /\ (Len(f.inputs) = 2 /\ f = max(f.inputs[1], f.inputs[2])
              /\ call.other = min(f.inputs[1], f.inputs[2]))
           => res.val = FALSE

\* C21: on a node built by max over a variable-bearing invertible first input,
\* invert(v) and invertIntegral(v) return v unchanged, without failing.
C21_ComparisonInvertsAsIdentity ==
    (call.op \in {"invert", "invertIntegral"}
        /\ Len(f.inputs) = 2
        /\ f = max(f.inputs[1], f.inputs[2])
        /\ hasVariable(f.inputs[1])
        /\ isInvertible(f.inputs[1].f))
    => res = Returned(call.arg)

\* C22: no call changes a node of the tree (its inputs, its has-variable flag,
\* its predicates, its innermost variable), and the only cells a call may
\* write are the ones the step and conditional combinators own: never the
\* caller's variable cell, never the condition.
C22_NodesImmutable ==
    [][call'.op # "none" =>
         /\ f' = f
         /\ \A n \in CellNames :
               cells'[n] # cells[n] => n \in NumberCells \ {"x"}]_vars

C22_Witness ==
    /\ call.op = "evaluate"
    /\ f = F_Step
    /\ call.arg = Num(200)
    /\ cells["x"] = Num(1)
    /\ res.err = ""

\* The variable-bearing inputs of a node.
VariableInputs(g) == {i \in DOMAIN g.inputs : hasVariable(g.inputs[i])}

\* C23: an operation node whose single variable-bearing input is not
\* invertible is not invertible, whatever invert callback its factory
\* supplied: add(abs(variable), 1) and pow(floor(variable), 2) are not.
C23_InverseDroppedOverNonInvertibleInput ==
    /\ (\E i \in VariableInputs(f) :
           VariableInputs(f) = {i} /\ ~isInvertible(f.inputs[i].f))
       => ~isInvertible(f)
    /\ f \in {add(FormulaSrc(abs(FormulaSrc(X))), ValueSrc(Num(1))),
              pow(FormulaSrc(floor(FormulaSrc(X))), ValueSrc(Num(2)))}
       => ~isInvertible(f)

\* The node and the chain of variable-bearing inputs below it: the nodes an
\* evaluateIntegral call descends through.
RECURSIVE VariablePath(_)
VariablePath(g) ==
    {g} \cup IF AnyVariable(g.inputs) /\ IsFormula(g.inputs[VarIndex(g.inputs)])
             THEN VariablePath(g.inputs[VarIndex(g.inputs)].f)
             ELSE {}

TwoComplexOperations == "Cannot have two complex operations in an integrable formula"

\* C24: an evaluateIntegral call that is handed a substitution stack fails
\* with the two-complex-operations fault on a node without an applySubstitution
\* callback, pushing nothing and returning nothing; the variable leaf and the
\* add, mul and neg nodes carry the callback, and the fault is never raised at
\* a node that carries it: when such a call fails with it, a node without the
\* callback lies below on the variable's path.
C24_SecondComplexOperationFaults ==
    call.op = "evaluateIntegralInner" =>
        /\ f.applySubstitution = Undefined =>
              res = [err |-> TwoComplexOperations, val |-> None,
                     stack |-> call.stack.s]
        /\ (\/ f = X
            \/ Len(f.inputs) = 1 /\ f = neg(f.inputs[1])
            \/ Len(f.inputs) = 2 /\ f \in {add(f.inputs[1], f.inputs[2]),
                                          mul(f.inputs[1], f.inputs[2])})
           => f.applySubstitution # Undefined
        /\ (f.applySubstitution # Undefined /\ res.err = TwoComplexOperations)
           => \E g \in VariablePath(f) : g.applySubstitution = Undefined
        /\ (\A g \in VariablePath(f) : g.applySubstitution # Undefined)
           => res.err # TwoComplexOperations

\* A pow node is reached with a stack one linear node has pushed onto.
C24_Witness ==
    /\ call.op = "evaluateIntegralInner"
    /\ f = F_Pow
    /\ Len(call.stack.s) = 1
    /\ res.err = TwoComplexOperations
    /\ res.stack = call.stack.s

\* A linear node over a complex one passes the fault on, after its own push.
C24_WitnessLinear ==
    /\ call.op = "evaluateIntegralInner"
    /\ f = add(FormulaSrc(F_Pow), ValueSrc(Num(1)))
    /\ res.err = TwoComplexOperations
    /\ Len(res.stack) = Len(call.stack.s) + 1

\* The nodes on the variable's path below g, outermost first.
RECURSIVE InnerPath(_)
InnerPath(g) ==
    IF AnyVariable(g.inputs) /\ IsFormula(g.inputs[VarIndex(g.inputs)])
    THEN <<g.inputs[VarIndex(g.inputs)].f>>
            \o InnerPath(g.inputs[VarIndex(g.inputs)].f)
    ELSE << >>

\* The closures of the nodes s[i], s[i+1], ... applied to value one after the
\* other, each once.
RECURSIVE ApplyInOrder(_, _, _, _)
ApplyInOrder(s, i, value, c) ==
    IF i > Len(s) THEN value
    ELSE ApplyInOrder(s, i + 1,
            callSubstitution(s[i].applySubstitution, value, s[i].inputs, c).val, c)

\* A node that is the complex operation of its formula.
IsComplex(g) == g.applySubstitution = Undefined /\ g.internalIntegrate # Undefined

\* r is the outcome of the integrate callback on an empty stack: the array
\* the call left behind lists the nodes of the variable's path, each once, and
\* the call returned r's value with the closure of each applied once, in that
\* order.
C25_Protocol(g, r, c) ==
    r.err = "" =>
        /\ res.err = ""
        /\ res.stack = InnerPath(g)
        /\ \A i \in DOMAIN res.stack : res.stack[i].applySubstitution # Undefined
        /\ res.val = ApplyInOrder(res.stack, 1, r.val, c)

\* C25: an outer evaluateIntegral call on a complex node hands its integrate
\* callback an empty stack, whatever the call before left; every linear node
\* the inner calls visit pushes one closure, so the array the call leaves
\* lists the nodes of the variable's path in order; the call returns the
\* callback's value with each closure applied once, in push order; a later
\* call with the same argument on the same tree applies none of the closures
\* of the call before and returns the same value.
C25_SubstitutionStackProtocol ==
    (call.op = "evaluateIntegral" /\ IsComplex(f))
    => /\ C25_Protocol(f,
             callIntegrate(f.internalIntegrate, f, call.arg, EmptyStack, cells),
             cells)
       /\ call.n > 1 => res = call.before

F_PowMul == pow(FormulaSrc(mul(FormulaSrc(X), ValueSrc(Num(2)))), ValueSrc(Num(2)))

\* (2x)^2 integrated to 3 a second time: the callback returns 6^3 / 3 = 72,
\* the closure of the product halves it once, and the call before returned 36
\* as well.
C25_Witness ==
    /\ call.op = "evaluateIntegral"
    /\ call.n = 2
    /\ f = F_PowMul
    /\ call.arg = Num(3)
    /\ call.before.val = Num(36)
    /\ Len(call.before.stack) = 2
    /\ res.val = Num(36)
    /\ res.stack = <<f.inputs[1].f, X>>

\* Decimal.add(formula.evaluate(), unref(processedStart)) of the first call,
\* read after the second call has returned.
evalStep_reread(env, second) ==
    IF second.err # "" THEN second
    ELSE evalStep_then(env, evaluate(env.formula, None, second.cells))

\* evalStep of the first call, with g.evaluate(v2) run between its write of
\* lhsRef and formula.evaluate().
evalStep_reentered(env, lhs, g, v2, c) ==
    IF DecLt(lhs, env.processedStart) THEN Ret(lhs, c)
    ELSE evalStep_reread(env,
            evaluate(g, v2,
                     [c EXCEPT ![env.lhsRef] = DecSub(lhs, env.processedStart)]))

evaluate_reentered_then(g, v1, v2, args) ==
    IF args.err # "" THEN args
    ELSE IF g.internalEvaluate.fn = "evalStep"
    THEN evaluate_result(g, v1,
            evalStep_reentered(g.internalEvaluate.env[1], args.val[1], g, v2,
                               args.cells))
    ELSE evaluate_result(g, v1,
            callEvaluate(g.internalEvaluate, args.val, args.cells))

\* g.evaluate(v1) with a second g.evaluate(v2) run inside it, at the point
\* between evalStep's write of the cell and the modifier's read, when the call
\* gets there.
evaluate_reentered(g, v1, v2, c) ==
    IF g.internalEvaluate = Undefined THEN evaluate_rest(g, v1, c)
    ELSE evaluate_reentered_then(g, v1, v2, mapInputs(g.inputs, 1, v1, c, << >>))

\* The value of step(variable, 150, v => v.mul(2)) at x, from 150 on.
StepValue(x) == DecAdd(ModifierValue("mul2", DecSub(x, Num(150))), Num(150))

\* A node a step factory returned.
IsStep(g) ==
    Len(g.inputs) = 1
        /\ \E s \in Starts, m \in Modifiers : g = step(g.inputs[1], s, m)

\* C26: a second evaluate of a step instance that runs between the first
\* evaluate's write of the internal cell and the modifier's read makes the
\* first evaluate return the step's value at the second call's input, whatever
\* the two inputs from the start on (and inputs with different values exist, so
\* that a wrong result is reachable); with one evaluate in flight the result of evaluate(v) does
\* not depend on what the internal cell holds.
C26_StepReentrancyHazard ==
    /\ \A v1, v2 \in Values :
          (DecLte(Num(150), v1) /\ DecLte(Num(150), v2))
          => Outcome(evaluate_reentered(F_Step, v1, v2, cells))
                = Returned(StepValue(v2))
    /\ \E v1, v2 \in Values :
          /\ DecLte(Num(150), v1) /\ DecLte(Num(150), v2)
          /\ StepValue(v2) # StepValue(v1)
    /\ (call.op = "evaluate" /\ call.arg # None /\ IsStep(f))
          => \A w \in Values :
                Outcome(evaluate(f, call.arg,
                        [cells EXCEPT ![LhsRefName(f.inputs[1])] = w])) = res

\* n is affordable with balance b and n + 1 is not: lo and hi are the outcomes
\* of calculateCost for n and for n + 1.
AffordableAndMaximal(b, lo, hi) ==
    /\ lo.err = "" /\ hi.err = ""
    /\ DecLte(lo.val, b)
    /\ DecGt(hi.val, b)

\* C27: for an integrable, integral-invertible formula whose evaluate is
\* non-negative and non-decreasing (the bare variable leaf included), the
\* count n that calculateMaxAffordable returns with spendResources true for the
\* balance b costs at most b, and n + 1 costs more than b.
C27_MaxAffordableIsAffordableAndMaximal ==
    (call.op = "calculateMaxAffordable" /\ call.spend
        /\ isIntegrable(f) /\ isIntegralInvertible(f)
        /\ NonNegativeNonDecreasing(f))
    => /\ res.err = ""
       /\ AffordableAndMaximal(call.arg,
             calculateCost(f, res.val, TRUE, cells),
             calculateCost(f, DecAdd(res.val, Num(1)), TRUE, cells))

\* C28: on a formula with hasVariable() true, evaluate() returns what
\* evaluate(c) returns for the current value c of the formula's variable cell,
\* wherever the variable sits among the inputs: add(variable, 1) and
\* add(1, variable) alike.
C28_OmittedOverrideIsCurrentValue ==
    (call.op = "evaluate" /\ call.arg = None /\ Formula_hasVariable(f)
        /\ f.innermostVariable # "undefined")
    => res = Outcome(evaluate(f, cells[f.innermostVariable], cells))

\* The nodes of the tree of g.
RECURSIVE SubNodes(_)
SubNodes(g) ==
    {g} \cup UNION {SubNodes(g.inputs[i].f) :
                        i \in {j \in DOMAIN g.inputs : IsFormula(g.inputs[j])}}

\* A node the variable factory returned.
IsVariableLeaf(g) ==
    /\ Len(g.inputs) = 1
    /\ ~IsFormula(g.inputs[1])
    /\ g.inputs[1].t = "ref"
    /\ g = variable(g.inputs[1].r)

\* The cell of the variable leaf reached from g by following, at each node,
\* its single variable-bearing input; "undefined" when the walk stops at a
\* node that has none or several.
RECURSIVE LeafCell(_)
LeafCell(g) ==
    IF IsVariableLeaf(g) THEN g.inputs[1].r
    ELSE IF Cardinality(VariableInputs(g)) = 1
    THEN LeafCell(g.inputs[CHOOSE i \in VariableInputs(g) : TRUE].f)
    ELSE "undefined"

\* C29: at every node of a formula built from the leaves and the operation
\* factories, hasVariable() is true exactly when innermostVariable is defined,
\* and then innermostVariable is the cell of the variable leaf reached through
\* the single variable-bearing inputs; an operation or constant node with no
\* variable-bearing input, or with two or more, has hasVariable() false and
\* innermostVariable undefined.
C29_HasVariableIffInnermostVariable ==
    \A g \in SubNodes(f) :
        /\ Formula_hasVariable(g) <=> g.innermostVariable # "undefined"
        /\ g.innermostVariable # "undefined" => g.innermostVariable = LeafCell(g)
        /\ (~IsVariableLeaf(g) /\ Cardinality(VariableInputs(g)) # 1)
           => ~Formula_hasVariable(g) /\ g.innermostVariable = "undefined"

\* A two-input node with two variable-bearing inputs, one of them an operation
\* node over the variable.
C29_Witness ==
    /\ \E g \in SubNodes(f) :
          Cardinality(VariableInputs(g)) = 2 /\ ~Formula_hasVariable(g)
    /\ \E g \in SubNodes(f) :
          ~IsVariableLeaf(g) /\ g.innermostVariable = "x"
    /\ ~Formula_hasVariable(f)
    /\ Len(f.inputs) = 2

\* The cells with the formula's variable cell holding n.
WithVariable(g, n) ==
    IF g.innermostVariable = "undefined" THEN cells
    ELSE [cells EXCEPT ![g.innermostVariable] = Num(n)]

\* total is the outcome of invertIntegral for the balance plus the integral up
\* to now: the call returns its floor less the current value of the variable.
SubtractsCurrent(g, total) ==
    IF total.err # "" THEN res = Outcome(total)
    ELSE res = Returned(DecSub(DecFloor(total.val), currentVariable(g, cells)))

\* C30: with spendResources false, calculateMaxAffordable on an invertible
\* formula returns the same for every value the formula's variable cell may
\* hold; with spendResources true it returns the floor of the solved total
\* less the current value of the variable cell.
C30_OwnedAmountSubtractedOnlyWhenSpending ==
    /\ (call.op = "calculateMaxAffordable" /\ ~call.spend /\ isInvertible(f))
       => \A n \in 0 .. MaxVal :
             Outcome(calculateMaxAffordable(f, call.arg, FALSE, WithVariable(f, n)))
                = res
    /\ (call.op = "calculateMaxAffordable" /\ call.spend
           /\ isIntegrable(f) /\ isIntegralInvertible(f)
           /\ evaluateIntegral(f, None, NoStack, cells).err = "")
       => SubtractsCurrent(f,
             invertIntegral(f,
                DecAdd(call.arg, evaluateIntegral(f, None, NoStack, cells).val),
                cells))

\* The variable leaf with 2 owned and a balance of 3: 3 is returned, not 1.
C30_Witness ==
    /\ call.op = "calculateMaxAffordable"
    /\ ~call.spend
    /\ f = X
    /\ cells["x"] = Num(2)
    /\ call.arg = Num(3)
    /\ res = Returned(Num(3))

====
